---- MODULE Spec2Model ----
(***************************************************************************)
(* Traffic violation dashboard: the Streamlit script main.py (cached CSV   *)
(* load, stylesheet injection, sidebar selector, page routing) and the map *)
(* utility layer of map_visualization.py (load_geojsons with its one hour  *)
(* cache, add_state_labels, filter_dataframe_by_date,                      *)
(* aggregate_by_location).                                                 *)
(*                                                                         *)
(* A table (pandas DataFrame) is [columns |-> <<names>>, rows |-> <<r>>],  *)
(* every row a record over the table's columns.  A date cell is a record   *)
(* [k, s, t]: k = "str" (the CSV text s), "nan" (an empty CSV cell),       *)
(* "ts" (a Timestamp, t in days) or "nat" (NaT).  A missing Location is    *)
(* the string NaN.  An aggregated metric is an exact fraction [num, den].  *)
(***************************************************************************)
EXTENDS Integers, Sequences, FiniteSets, TLC

VARIABLES
    csvFile,     \* Indian_Traffic_Violations_cleaned.csv on disk: [status, table]
    dataCache,   \* st.cache_data store of load_data: <<>> or <<table>>
    csvReads,    \* how many times pd.read_csv has read the file in this process
    df,          \* main.py's df in the current rerun: <<>> or <<table>>
    loaded,      \* what load_data returned in the current rerun: <<>> or <<table>>
    page,        \* the value of the sidebar radio
    run,         \* the trace of the last rerun: [loadOk, styled, sidebar, invoked]
    call,        \* the last call of filter_dataframe_by_date / aggregate_by_location
    fig,         \* the annotations of the figure handed to add_state_labels
    labelCall,   \* the last call of add_state_labels
    now,         \* the process clock, in seconds
    remote,      \* the world geojson served at world_url: [up, doc]
    indiaFile,   \* india_states.geojson on disk: "present", "absent" or "corrupt"
    geoCache,    \* st.cache_data(ttl=3600) store of load_geojsons: <<>> or <<entry>>
    geoCall      \* the last call of load_geojsons

vars == <<csvFile, dataCache, csvReads, df, loaded, page, run, call, fig,
          labelCall, now, remote, indiaFile, geoCache, geoCall>>

sessionVars == <<csvFile, dataCache, csvReads, loaded, page, run>>
labelVars == <<fig, labelCall>>
geoVars == <<now, remote, indiaFile, geoCache, geoCall>>

-----------------------------------------------------------------------------
(* Bounds of the model *)

MaxRows == 3

MaxDay == 4

-----------------------------------------------------------------------------
(* Values *)

NaN == "NaN"

Range(s) == {s[i] : i \in 1..Len(s)}

StrCell(text) == [k |-> "str", s |-> text, t |-> 0]

NanCell == [k |-> "nan", s |-> "", t |-> 0]

Timestamp(d) == [k |-> "ts", s |-> "", t |-> d]

NaT == [k |-> "nat", s |-> "", t |-> 0]

\* The day a CSV date text denotes; texts outside the domain do not parse.
DayOfText ==
    ("2023-01-01" :> 1) @@ ("2023-01-02" :> 2) @@ ("2023-01-03" :> 3) @@
    ("2023-01-04" :> 4)

\* pd.to_datetime(x, errors='coerce') on one cell
ToDatetime(cell) ==
    CASE cell.k = "ts" -> cell
      [] cell.k = "nat" -> cell
      [] cell.k = "nan" -> NaT
      [] cell.k = "str" ->
            IF cell.s \in DOMAIN DayOfText THEN Timestamp(DayOfText[cell.s]) ELSE NaT

\* cell >= ts and cell <= ts on a datetime column: a comparison with NaT is False
CellGe(cell, d) == cell.k = "ts" /\ cell.t >= d

CellLe(cell, d) == cell.k = "ts" /\ cell.t <= d

\* df[mask]: the rows whose mask entry is True, in order
RECURSIVE BooleanIndex(_, _)
BooleanIndex(rows, mask) ==
    IF rows = <<>> THEN <<>>
    ELSE IF Head(mask) THEN <<Head(rows)>> \o BooleanIndex(Tail(rows), Tail(mask))
         ELSE BooleanIndex(Tail(rows), Tail(mask))

\* df[date_column] = pd.to_datetime(df[date_column], errors='coerce')
AssignDatetime(t, date_column) ==
    [t EXCEPT !.rows = [i \in 1..Len(t.rows) |->
        [t.rows[i] EXCEPT ![date_column] = ToDatetime(@)]]]

\* A variant with an exclusive upper bound.
DateMaskExclusiveEnd(cell, start_date, end_date) ==
    CellGe(cell, start_date) /\ cell.k = "ts" /\ cell.t < end_date

\* (df[date_column] >= start_date) & (df[date_column] <= end_date)
DateMask(cell, start_date, end_date) ==
    CellGe(cell, start_date) /\ CellLe(cell, end_date)

NoReturn == [columns |-> <<>>, rows |-> <<>>]

\* A variant without the guard on the column: df[date_column] raises KeyError.
FilterWithoutGuard(t, start_date, end_date, date_column) ==
    IF date_column \notin Range(t.columns)
    THEN [ret |-> NoReturn, df |-> t, raised |-> TRUE]
    ELSE LET converted == AssignDatetime(t, date_column)
             mask == [i \in 1..Len(converted.rows) |->
                        DateMask(converted.rows[i][date_column], start_date, end_date)]
         IN [ret |-> [converted EXCEPT !.rows = BooleanIndex(converted.rows, mask)],
             df |-> converted,
             raised |-> FALSE]

\* MapVisualizer.filter_dataframe_by_date: the table returned (ret) and the
\* caller's table after the call (df)
filter_dataframe_by_date(t, start_date, end_date, date_column) ==
    IF date_column \notin Range(t.columns)
    THEN [ret |-> t, df |-> t, raised |-> FALSE]
    ELSE LET converted == AssignDatetime(t, date_column)
             mask == [i \in 1..Len(converted.rows) |->
                        DateMask(converted.rows[i][date_column], start_date, end_date)]
         IN [ret |-> [converted EXCEPT !.rows = BooleanIndex(converted.rows, mask)],
             df |-> converted,
             raised |-> FALSE]

-----------------------------------------------------------------------------
(* aggregate_by_location *)

\* The order of the location strings, as groupby's sort=True orders the keys.
LexOrder == <<"Delhi", "Goa", "Karnataka">>

LexRank(x) == CHOOSE i \in 1..Len(LexOrder) : LexOrder[i] = x

\* The group keys of df.groupby(location_column): the distinct values, missing
\* ones dropped (dropna=True), sorted.
RECURSIVE SortKeys(_)
SortKeys(S) ==
    IF S = {} THEN <<>>
    ELSE LET least == CHOOSE x \in S : \A y \in S : LexRank(x) <= LexRank(y)
         IN <<least>> \o SortKeys(S \ {least})

GroupKeys(t, location_column) ==
    SortKeys({t.rows[i][location_column] : i \in 1..Len(t.rows)} \ {NaN})

\* The rows of one group, in table order.
GroupRows(t, location_column, key) ==
    SelectSeq(t.rows, LAMBDA r : r[location_column] = key)

Number(n) == [num |-> n, den |-> 1]

\* .reset_index(name=...): one row per group key, the key and its value
ResetIndex(keys, values, location_column, name) ==
    [columns |-> <<location_column, name>>,
     rows |-> [i \in 1..Len(keys) |->
                 (location_column :> keys[i]) @@ (name :> values[keys[i]])]]

KeyError == [ret |-> NoReturn, raised |-> TRUE]

HasColumns(t, names) == names \subseteq Range(t.columns)

\* A variant that keeps the last value of a group instead of adding the values up.
SeriesLast(rows, metric_column) ==
    IF rows = <<>> THEN 0 ELSE rows[Len(rows)][metric_column]

RECURSIVE SeriesSum(_, _)
\* Series.sum() over the rows of one group
SeriesSum(rows, metric_column) ==
    IF rows = <<>> THEN 0
    ELSE Head(rows)[metric_column] + SeriesSum(Tail(rows), metric_column)

RECURSIVE SeriesMax(_, _)
\* Series.max() over the rows of one group (a group is never empty)
SeriesMax(rows, metric_column) ==
    IF Len(rows) = 1 THEN Head(rows)[metric_column]
    ELSE LET m == SeriesMax(Tail(rows), metric_column)
         IN IF Head(rows)[metric_column] >= m THEN Head(rows)[metric_column] ELSE m

\* df.groupby(location_column)[metric_column].sum().reset_index(name=..._Total)
GroupSum(t, location_column, metric_column) ==
    IF ~HasColumns(t, {location_column, metric_column}) THEN KeyError
    ELSE LET keys == GroupKeys(t, location_column)
             total == [key \in Range(keys) |->
                Number(SeriesSum(GroupRows(t, location_column, key), metric_column))]
         IN [ret |-> ResetIndex(keys, total, location_column, metric_column \o "_Total"),
             raised |-> FALSE]

\* df.groupby(location_column)[metric_column].mean().reset_index(name=..._Avg)
GroupMean(t, location_column, metric_column) ==
    IF ~HasColumns(t, {location_column, metric_column}) THEN KeyError
    ELSE LET keys == GroupKeys(t, location_column)
             avg == [key \in Range(keys) |->
                [num |-> SeriesSum(GroupRows(t, location_column, key), metric_column),
                 den |-> Len(GroupRows(t, location_column, key))]]
         IN [ret |-> ResetIndex(keys, avg, location_column, metric_column \o "_Avg"),
             raised |-> FALSE]

\* df.groupby(location_column).size().reset_index(name='Count')
GroupSize(t, location_column) ==
    IF ~HasColumns(t, {location_column}) THEN KeyError
    ELSE LET keys == GroupKeys(t, location_column)
             size == [key \in Range(keys) |->
                Number(Len(GroupRows(t, location_column, key)))]
         IN [ret |-> ResetIndex(keys, size, location_column, "Count"),
             raised |-> FALSE]

\* df.groupby(location_column)[metric_column].max().reset_index(name=..._Max)
GroupMax(t, location_column, metric_column) ==
    IF ~HasColumns(t, {location_column, metric_column}) THEN KeyError
    ELSE LET keys == GroupKeys(t, location_column)
             top == [key \in Range(keys) |->
                Number(SeriesMax(GroupRows(t, location_column, key), metric_column))]
         IN [ret |-> ResetIndex(keys, top, location_column, metric_column \o "_Max"),
             raised |-> FALSE]

\* A variant that rejects an aggregation it does not know.
AggregateRejectingUnknown(t, location_column, metric_column, aggregation) ==
    IF aggregation = "sum" THEN GroupSum(t, location_column, metric_column)
    ELSE IF aggregation = "mean" THEN GroupMean(t, location_column, metric_column)
    ELSE IF aggregation = "count" THEN GroupSize(t, location_column)
    ELSE IF aggregation = "max" THEN GroupMax(t, location_column, metric_column)
    ELSE [ret |-> NoReturn, raised |-> TRUE]

\* MapVisualizer.aggregate_by_location
aggregate_by_location(t, location_column, metric_column, aggregation) ==
    IF aggregation = "sum" THEN GroupSum(t, location_column, metric_column)
    ELSE IF aggregation = "mean" THEN GroupMean(t, location_column, metric_column)
    ELSE IF aggregation = "count" THEN GroupSize(t, location_column)
    ELSE IF aggregation = "max" THEN GroupMax(t, location_column, metric_column)
    ELSE GroupSum(t, location_column, metric_column)

-----------------------------------------------------------------------------
(* add_state_labels *)

\* MapVisualizer.get_state_coordinates: (lat, lon) in hundredths of a degree
get_state_coordinates ==
    ("Karnataka" :> <<1297, 7759>>) @@ ("Punjab" :> <<3090, 7585>>) @@
    ("Maharashtra" :> <<1907, 7287>>) @@ ("West Bengal" :> <<2257, 8836>>) @@
    ("Tamil Nadu" :> <<1308, 8027>>) @@ ("Delhi" :> <<2861, 7723>>) @@
    ("Uttar Pradesh" :> <<2685, 8095>>) @@ ("Gujarat" :> <<2302, 7257>>) @@
    ("Rajasthan" :> <<2759, 7562>>) @@ ("Madhya Pradesh" :> <<2285, 7799>>) @@
    ("Andhra Pradesh" :> <<1591, 7816>>) @@ ("Telangana" :> <<1811, 7901>>) @@
    ("Bihar" :> <<2559, 8554>>) @@ ("Jharkhand" :> <<2361, 8528>>) @@
    ("Odisha" :> <<2095, 8509>>) @@ ("Assam" :> <<2620, 9294>>)

\* state[:2].upper()
UpperPrefix ==
    ("Karnataka" :> "KA") @@ ("Punjab" :> "PU") @@ ("Maharashtra" :> "MA") @@
    ("West Bengal" :> "WE") @@ ("Tamil Nadu" :> "TA") @@ ("Delhi" :> "DE") @@
    ("Uttar Pradesh" :> "UT") @@ ("Gujarat" :> "GU") @@ ("Rajasthan" :> "RA") @@
    ("Madhya Pradesh" :> "MA") @@ ("Andhra Pradesh" :> "AN") @@
    ("Telangana" :> "TE") @@ ("Bihar" :> "BI") @@ ("Jharkhand" :> "JH") @@
    ("Odisha" :> "OD") @@ ("Assam" :> "AS")

\* int(x) on a number: the fraction truncated (the metrics are not negative)
IntOf(n) == n.num \div n.den

\* The fig.add_annotation(...) call for one recognized row
Annotation(state, value, offset_x, offset_y) ==
    [x |-> get_state_coordinates[state][2] + offset_x,
     y |-> get_state_coordinates[state][1] + offset_y,
     label |-> UpperPrefix[state],
     value |-> value]

RECURSIVE LabelsWithoutMembershipTest(_, _, _, _)
\* A variant that looks every Location up: an unknown one raises KeyError.
LabelsWithoutMembershipTest(annotations, state_data, offset_x, offset_y) ==
    IF state_data.rows = <<>> THEN [annotations |-> annotations, raised |-> FALSE]
    ELSE LET row == Head(state_data.rows)
             state == row["Location"]
             rest == [state_data EXCEPT !.rows = Tail(@)]
         IN IF state \in DOMAIN get_state_coordinates
            THEN LabelsWithoutMembershipTest(
                    Append(annotations,
                           Annotation(state, IntOf(row[state_data.columns[2]]),
                                      offset_x, offset_y)),
                    rest, offset_x, offset_y)
            ELSE [annotations |-> annotations, raised |-> TRUE]

RECURSIVE add_state_labels(_, _, _, _)
\* MapVisualizer.add_state_labels: the loop over state_data.iterrows(); the
\* figure's annotations after the call
add_state_labels(annotations, state_data, offset_x, offset_y) ==
    IF state_data.rows = <<>> THEN [annotations |-> annotations, raised |-> FALSE]
    ELSE LET row == Head(state_data.rows)
             state == row["Location"]
             rest == [state_data EXCEPT !.rows = Tail(@)]
         IN IF state \in DOMAIN get_state_coordinates
            THEN add_state_labels(
                    Append(annotations,
                           Annotation(state, IntOf(row[state_data.columns[2]]),
                                      offset_x, offset_y)),
                    rest, offset_x, offset_y)
            ELSE add_state_labels(annotations, rest, offset_x, offset_y)

-----------------------------------------------------------------------------
(* main.py: the cached load, the stylesheet, the sidebar and the router *)

\* The options of st.sidebar.radio, in order.
NavigationLabels ==
    <<"Home", "Dashboard", "Time Trend Analysis", "Environment Analysis",
      "Vehicle Analysis", "Driver Behaviour Analysis", "Payment Analysis",
      "Map Visualisation", "Report", "About">>

Invocation(view, table) == [view |-> view, arg |-> table]

\* A variant whose Dashboard branch is an `if`, not an `elif`, after a Home
\* branch that falls through to it.
RouteFallingThrough(selected, table) ==
    IF selected = "Home"
    THEN <<Invocation("views._1_Home", table), Invocation("views._2_Dashboard", table)>>
    ELSE IF selected = "Dashboard" THEN <<Invocation("views._2_Dashboard", table)>>
    ELSE <<>>

\* The if/elif chain of main.py: the app(df) calls it makes for a label, in order.
Route(selected, table) ==
    IF selected = "Home" THEN <<Invocation("views._1_Home", table)>>
    ELSE IF selected = "Dashboard" THEN <<Invocation("views._2_Dashboard", table)>>
    ELSE IF selected = "Time Trend Analysis"
         THEN <<Invocation("views._3_Time_Trend_Analysis", table)>>
    ELSE IF selected = "Environment Analysis"
         THEN <<Invocation("views._4_Environment_Analysis", table)>>
    ELSE IF selected = "Vehicle Analysis"
         THEN <<Invocation("views._5_Vehicle_Analysis", table)>>
    ELSE IF selected = "Driver Behaviour Analysis"
         THEN <<Invocation("views._6_Driver_Behaviour_Analysis", table)>>
    ELSE IF selected = "Payment Analysis"
         THEN <<Invocation("views._7_Payment_Analysis", table)>>
    ELSE IF selected = "Map Visualisation"
         THEN <<Invocation("views._8_Map_Visualisation", table)>>
    ELSE IF selected = "Report" THEN <<Invocation("views._9_Report", table)>>
    ELSE IF selected = "About" THEN <<Invocation("views._10_About", table)>>
    ELSE <<>>

\* A variant of load_data without @st.cache_data: every call reads the file.
LoadDataUncached ==
    IF csvFile.status = "ok"
    THEN [ok |-> TRUE, hit |-> FALSE, ret |-> <<csvFile.table>>,
          cache |-> <<csvFile.table>>, reads |-> csvReads + 1]
    ELSE [ok |-> FALSE, hit |-> FALSE, ret |-> <<>>, cache |-> dataCache,
          reads |-> IF csvFile.status = "malformed" THEN csvReads + 1 ELSE csvReads]

\* load_data() under @st.cache_data: a hit returns a copy of the stored table; a
\* miss runs pd.read_csv, which raises on a missing or malformed file, and an
\* exception stores nothing.
load_data ==
    IF dataCache # <<>>
    THEN [ok |-> TRUE, hit |-> TRUE, ret |-> dataCache, cache |-> dataCache,
          reads |-> csvReads]
    ELSE IF csvFile.status = "ok"
    THEN [ok |-> TRUE, hit |-> FALSE, ret |-> <<csvFile.table>>,
          cache |-> <<csvFile.table>>, reads |-> csvReads + 1]
    ELSE [ok |-> FALSE, hit |-> FALSE, ret |-> <<>>, cache |-> <<>>,
          reads |-> IF csvFile.status = "malformed" THEN csvReads + 1 ELSE csvReads]

NoCall == [op |-> "none"]

NotRun == [ran |-> FALSE, loadOk |-> FALSE, hit |-> FALSE, styled |-> FALSE,
           sidebar |-> FALSE, invoked |-> <<>>]

\* styles/main.css as a rerun finds it: readable, not there (open raises), or
\* there but not readable as UTF-8 text (read raises).
StylesheetStates == {"ok", "missing", "unreadable"}

\* open("styles/main.css") ... st.markdown(<style>) inside try/except Exception: pass
InjectStylesheet(css) == css = "ok"

\* A variant of the script without the try/except around the stylesheet: a
\* failure to open or read it ends the rerun before the sidebar and the router.
RunScriptStylesheetFatal(selected, css) ==
    LET ld == load_data
    IN IF ld.ok
       THEN [loaded |-> ld.ret, cache |-> ld.cache, reads |-> ld.reads,
             run |-> [ran |-> TRUE, loadOk |-> TRUE, hit |-> ld.hit,
                      styled |-> InjectStylesheet(css),
                      sidebar |-> InjectStylesheet(css),
                      invoked |-> IF InjectStylesheet(css)
                                  THEN Route(selected, ld.ret[1]) ELSE <<>>]]
       ELSE [loaded |-> <<>>, cache |-> ld.cache, reads |-> ld.reads,
             run |-> [ran |-> TRUE, loadOk |-> FALSE, hit |-> FALSE, styled |-> FALSE,
                      sidebar |-> FALSE, invoked |-> <<>>]]

\* One execution of main.py from top to bottom, with the label the user has
\* selected and the state of styles/main.css.
RunScript(selected, css) ==
    LET ld == load_data
    IN IF ld.ok
       THEN [loaded |-> ld.ret, cache |-> ld.cache, reads |-> ld.reads,
             run |-> [ran |-> TRUE, loadOk |-> TRUE, hit |-> ld.hit,
                      styled |-> InjectStylesheet(css), sidebar |-> TRUE,
                      invoked |-> Route(selected, ld.ret[1])]]
       ELSE [loaded |-> <<>>, cache |-> ld.cache, reads |-> ld.reads,
             run |-> [ran |-> TRUE, loadOk |-> FALSE, hit |-> FALSE, styled |-> FALSE,
                      sidebar |-> FALSE, invoked |-> <<>>]]

-----------------------------------------------------------------------------
(* load_geojsons *)

\* ttl of @st.cache_data(ttl=3600), in seconds
ttl == 3600

None == "None"

\* The content of india_states.geojson when the file is there and is JSON.
IndiaDoc == "india.v1"

\* A variant whose file read is not guarded: a missing file raises.
LoadGeojsonsBodyUnguarded ==
    IF ~remote.up
    THEN [raised |-> TRUE, ret |-> <<>>, requests |-> 1, opens |-> 0, warning |-> FALSE]
    ELSE IF indiaFile = "present"
    THEN [raised |-> FALSE, ret |-> <<remote.doc, IndiaDoc>>, requests |-> 1,
          opens |-> 1, warning |-> FALSE]
    ELSE [raised |-> TRUE, ret |-> <<>>, requests |-> 1, opens |-> 1, warning |-> FALSE]

\* A variant that guards the fetch as well: a failed GET leaves the world
\* dataset None and the call returns normally.
LoadGeojsonsBodyFetchGuarded ==
    IF ~remote.up
    THEN IF indiaFile = "present"
         THEN [raised |-> FALSE, ret |-> <<None, IndiaDoc>>, requests |-> 1,
               opens |-> 1, warning |-> FALSE]
         ELSE [raised |-> FALSE, ret |-> <<None, None>>, requests |-> 1,
               opens |-> 1, warning |-> TRUE]
    ELSE IF indiaFile = "present"
    THEN [raised |-> FALSE, ret |-> <<remote.doc, IndiaDoc>>, requests |-> 1,
          opens |-> 1, warning |-> FALSE]
    ELSE [raised |-> FALSE, ret |-> <<remote.doc, None>>, requests |-> 1,
          opens |-> 1, warning |-> TRUE]

\* The body of load_geojsons: requests.get(world_url).json() (an unreachable or
\* non-JSON answer raises), then the local file inside try / bare except.
load_geojsons_body ==
    IF ~remote.up
    THEN [raised |-> TRUE, ret |-> <<>>, requests |-> 1, opens |-> 0, warning |-> FALSE]
    ELSE IF indiaFile = "present"
    THEN [raised |-> FALSE, ret |-> <<remote.doc, IndiaDoc>>, requests |-> 1,
          opens |-> 1, warning |-> FALSE]
    ELSE [raised |-> FALSE, ret |-> <<remote.doc, None>>, requests |-> 1,
          opens |-> 1, warning |-> TRUE]

\* An entry of the cache is valid while it is less than ttl old.
CacheValid == geoCache # <<>> /\ now - geoCache[1].at < ttl

\* A variant of load_geojsons without @st.cache_data: every call runs the body.
LoadGeojsonsUncached ==
    LET out == load_geojsons_body
    IN [hit |-> FALSE, raised |-> out.raised, ret |-> out.ret,
        requests |-> out.requests, opens |-> out.opens, warning |-> out.warning,
        cache |-> IF out.raised THEN <<>>
                  ELSE <<[ret |-> out.ret, at |-> now, warning |-> out.warning]>>]

\* load_geojsons under @st.cache_data(ttl=3600): a valid entry is returned (and
\* the st.warning it recorded is replayed); otherwise the body runs and its
\* result is stored with the time; an exception stores nothing.
load_geojsons ==
    IF CacheValid
    THEN [hit |-> TRUE, raised |-> FALSE, ret |-> geoCache[1].ret, requests |-> 0,
          opens |-> 0, warning |-> geoCache[1].warning, cache |-> geoCache]
    ELSE LET out == load_geojsons_body
         IN [hit |-> FALSE, raised |-> out.raised, ret |-> out.ret,
             requests |-> out.requests, opens |-> out.opens, warning |-> out.warning,
             cache |-> IF out.raised THEN <<>>
                       ELSE <<[ret |-> out.ret, at |-> now, warning |-> out.warning]>>]

-----------------------------------------------------------------------------
(* Tables *)

TableColumns == <<"Location", "Fine_Amount", "Date">>

SeqsUpTo(S, n) == UNION {[1..k -> S] : k \in 0..n}

TablesOver(columns, rowSet) ==
    {[columns |-> columns, rows |-> rows] : rows \in SeqsUpTo(rowSet, MaxRows)}

\* The Date cells of the CSV: three days, a text that is no date, an empty cell.
CsvDateCells ==
    {StrCell("2023-01-01"), StrCell("2023-01-02"), StrCell("2023-01-04"),
     StrCell("not a date"), NanCell}

\* The inputs of filter_dataframe_by_date: with and without the Date column.
FilterTables ==
    TablesOver(TableColumns,
               [Location : {"Delhi"}, Fine_Amount : {10}, Date : CsvDateCells]
               \cup [Location : {"Goa"}, Fine_Amount : {5},
                     Date : {StrCell("2023-01-02"), StrCell("not a date")}])
    \cup TablesOver(<<"Location", "Fine_Amount">>,
                    [Location : {"Delhi", "Goa"}, Fine_Amount : {10}])

\* The inputs of aggregate_by_location: with and without the metric column.
AggregateTables ==
    TablesOver(TableColumns,
               [Location : {"Delhi", "Goa", NaN}, Fine_Amount : {5, 7, 10},
                Date : {StrCell("2023-01-01")}])
    \cup TablesOver(<<"Location", "Date">>,
                    [Location : {"Delhi", "Goa"}, Date : {StrCell("2023-01-01")}])

\* The inputs of add_state_labels: a Location and a metric, as aggregate_by_location
\* returns them (a count or total, or a mean that is no whole number).
StateDataTables ==
    TablesOver(<<"Location", "Fine_Amount_Avg">>,
               [Location : {"Delhi", "Goa"},
                Fine_Amount_Avg : {Number(7), [num |-> 25, den |-> 2]}]
               \cup [Location : {"Karnataka", NaN}, Fine_Amount_Avg : {Number(7)}])

LabelOffsets == {0, 50}

Aggregations == {"sum", "mean", "count", "max", "median", "Sum"}

\* The contents the CSV file takes in the session model.
SessionTables ==
    {[columns |-> TableColumns,
      rows |-> <<[Location |-> "Delhi", Fine_Amount |-> 10, Date |-> StrCell("2023-01-01")],
                 [Location |-> "Delhi", Fine_Amount |-> 5, Date |-> StrCell("not a date")],
                 [Location |-> "Goa", Fine_Amount |-> 7, Date |-> StrCell("2023-01-04")]>>],
     [columns |-> <<"Location", "Fine_Amount">>,
      rows |-> <<[Location |-> "Goa", Fine_Amount |-> 7]>>]}

-----------------------------------------------------------------------------
(* Actions *)

MaxReads == 3

\* A rerun of the script: the user selects a label (or any widget changes).
Rerun ==
    /\ csvReads < MaxReads
    /\ \E selected \in Range(NavigationLabels), css \in StylesheetStates :
         LET out == RunScript(selected, css)
         IN /\ page' = selected
            /\ dataCache' = out.cache
            /\ csvReads' = out.reads
            /\ loaded' = out.loaded
            /\ df' = out.loaded
            /\ run' = out.run
            /\ call' = NoCall
    /\ UNCHANGED <<csvFile, labelVars, geoVars>>

\* The file on disk is replaced, removed or damaged.
CsvChanges ==
    /\ \E status \in {"ok", "malformed", "missing"}, t \in SessionTables :
         /\ csvFile' = [status |-> status, table |-> t]
         /\ csvFile' # csvFile
    /\ UNCHANGED <<dataCache, csvReads, df, loaded, page, run, call, labelVars, geoVars>>

\* A renderer calls filter_dataframe_by_date(df, start_date, end_date).
FilterCall ==
    /\ df # <<>>
    /\ \E start_date \in 1..MaxDay, end_date \in 1..MaxDay :
         LET out == filter_dataframe_by_date(df[1], start_date, end_date, "Date")
         IN /\ call' = [op |-> "filter", before |-> df[1], start |-> start_date,
                        end |-> end_date, ret |-> out.ret, raised |-> out.raised]
            /\ df' = <<out.df>>
    /\ UNCHANGED <<sessionVars, labelVars, geoVars>>

\* A renderer calls aggregate_by_location(df, aggregation=...).
AggregateCall ==
    /\ df # <<>>
    /\ \E aggregation \in Aggregations :
         LET out == aggregate_by_location(df[1], "Location", "Fine_Amount", aggregation)
         IN call' = [op |-> "aggregate", before |-> df[1], mode |-> aggregation,
                     ret |-> out.ret, raised |-> out.raised]
    /\ UNCHANGED <<df, sessionVars, labelVars, geoVars>>

\* A renderer calls add_state_labels(fig, state_data, offset_x, offset_y) with
\* the figure and the arguments it has prepared.
LabelCall ==
    /\ labelCall.op = "prepared"
    /\ LET out == add_state_labels(fig, labelCall.state_data, labelCall.offset_x,
                                 labelCall.offset_y)
       IN /\ fig' = out.annotations
          /\ labelCall' = [labelCall EXCEPT !.op = "labels", !.raised = out.raised]
    /\ UNCHANGED <<df, call, sessionVars, geoVars>>

Quantum == 1200

MaxClock == 7200

\* The map page calls MapVisualizer().load_geojsons().
LoadGeojsonsCall ==
    /\ LET out == load_geojsons
       IN /\ geoCache' = out.cache
          /\ geoCall' = [op |-> "load_geojsons", at |-> now, cached |-> geoCache,
                         remote |-> remote, file |-> indiaFile, hit |-> out.hit,
                         raised |-> out.raised, ret |-> out.ret,
                         requests |-> out.requests, opens |-> out.opens,
                         warning |-> out.warning]
    /\ UNCHANGED <<now, remote, indiaFile, df, call, sessionVars, labelVars>>

\* Time passes.
Tick ==
    /\ now + Quantum <= MaxClock
    /\ now' = now + Quantum
    /\ UNCHANGED <<remote, indiaFile, geoCache, geoCall, df, call, sessionVars, labelVars>>

\* The network or the document served at world_url changes.
RemoteChanges ==
    /\ \E up \in BOOLEAN, doc \in {"world.v1", "world.v2"} :
         /\ remote' = [up |-> up, doc |-> doc]
         /\ remote' # remote
    /\ UNCHANGED <<now, indiaFile, geoCache, geoCall, df, call, sessionVars, labelVars>>

\* india_states.geojson is added, removed or damaged.
IndiaFileChanges ==
    /\ \E status \in {"present", "absent", "corrupt"} :
         /\ indiaFile' = status
         /\ indiaFile' # indiaFile
    /\ UNCHANGED <<now, remote, geoCache, geoCall, df, call, sessionVars, labelVars>>

-----------------------------------------------------------------------------
(* Specifications *)

InitLabels == fig = <<>> /\ labelCall = NoCall

InitGeo ==
    /\ now = 0
    /\ remote = [up |-> TRUE, doc |-> "world.v1"]
    /\ indiaFile = "present"
    /\ geoCache = <<>>
    /\ geoCall = NoCall

\* The process has started and no script run has happened yet.
InitSession ==
    /\ csvFile \in [status : {"ok", "malformed", "missing"}, table : SessionTables]
    /\ dataCache = <<>>
    /\ csvReads = 0
    /\ loaded = <<>>
    /\ page = NavigationLabels[1]
    /\ run = NotRun

Init ==
    /\ InitSession
    /\ df = <<>>
    /\ call = NoCall
    /\ InitLabels
    /\ InitGeo

\* The state in which a renderer runs with table t as its df: the first rerun
\* has loaded t and routed to the map page.
RenderingSession(t) ==
    /\ csvFile = [status |-> "ok", table |-> t]
    /\ dataCache = <<t>>
    /\ csvReads = 1
    /\ df = <<t>>
    /\ loaded = <<t>>
    /\ page = "Map Visualisation"
    /\ run = [ran |-> TRUE, loadOk |-> TRUE, hit |-> FALSE, styled |-> TRUE,
              sidebar |-> TRUE, invoked |-> Route("Map Visualisation", t)]
    /\ call = NoCall

Rendering(t) == RenderingSession(t) /\ InitLabels /\ InitGeo

MapPageTable ==
    [columns |-> <<"Location", "Fine_Amount">>,
     rows |-> <<[Location |-> "Goa", Fine_Amount |-> 7]>>]

InitFilter == \E t \in FilterTables : Rendering(t)

InitAggregate == \E t \in AggregateTables : Rendering(t)

Next == Rerun \/ CsvChanges \/ FilterCall \/ AggregateCall

Spec == Init /\ [][Next]_vars

\* A renderer is about to label a figure: the figure is new or carries the
\* labels of an earlier call, and state_data and the offsets are chosen.
InitLabelling ==
    /\ RenderingSession(MapPageTable)
    /\ InitGeo
    /\ fig \in {<<>>, <<Annotation("Punjab", 3, 0, 0)>>}
    /\ \E state_data \in StateDataTables, ox \in LabelOffsets, oy \in LabelOffsets :
          labelCall = [op |-> "prepared", before |-> fig, state_data |-> state_data,
                       offset_x |-> ox, offset_y |-> oy, raised |-> FALSE]

NextLabels == LabelCall

SpecLabels == InitLabelling /\ [][NextLabels]_vars

\* The map page is rendering and load_geojsons has not been called yet.
InitGeojsons == Rendering(MapPageTable)

NextGeo == LoadGeojsonsCall \/ Tick \/ RemoteChanges \/ IndiaFileChanges

SpecGeo == InitGeojsons /\ [][NextGeo]_vars

NextFilter == FilterCall

SpecFilter == InitFilter /\ [][NextFilter]_vars

NextAggregate == AggregateCall

SpecAggregate == InitAggregate /\ [][NextAggregate]_vars

-----------------------------------------------------------------------------
(* Properties of filter_dataframe_by_date *)

FilterCalled == call.op = "filter"

HasDateColumn(t) == "Date" \in Range(t.columns)

\* The day a Date cell stands for, 0 when it stands for none.
DenotedDay(cell) ==
    IF cell.k = "ts" THEN cell.t
    ELSE IF cell.k = "str" /\ cell.s \in DOMAIN DayOfText THEN DayOfText[cell.s]
    ELSE 0

\* The positions of the input records whose date lies in [start, end].
InRangeRows ==
    {i \in 1..Len(call.before.rows) :
        LET d == DenotedDay(call.before.rows[i].Date)
        IN d # 0 /\ call.start <= d /\ d <= call.end}

NthInRange(j) ==
    CHOOSE i \in InRangeRows : Cardinality({m \in InRangeRows : m <= i}) = j

\* C3: on a table with the date column, filter_dataframe_by_date returns exactly
\* the records whose date d satisfies start_date <= d <= end_date, in their
\* order and with their other fields: a record dated start_date or end_date is
\* kept, a record outside the range or with an unparseable date is dropped.
C3_FilterInclusive ==
    (FilterCalled /\ HasDateColumn(call.before)) =>
        /\ ~call.raised
        /\ call.ret.columns = call.before.columns
        /\ Len(call.ret.rows) = Cardinality(InRangeRows)
        /\ \A j \in 1..Len(call.ret.rows) :
              LET r == call.before.rows[NthInRange(j)]
              IN call.ret.rows[j] = [r EXCEPT !.Date = Timestamp(DenotedDay(r.Date))]

C3_Witness ==
    /\ FilterCalled /\ HasDateColumn(call.before)
    /\ call.start < call.end
    /\ \E i \in InRangeRows : DenotedDay(call.before.rows[i].Date) = call.start
    /\ \E i \in InRangeRows : DenotedDay(call.before.rows[i].Date) = call.end
    /\ \E i \in 1..Len(call.before.rows) :
          call.before.rows[i].Date = StrCell("not a date")
    /\ Len(call.ret.rows) = 2

\* C4: on a table without the date column, filter_dataframe_by_date raises no
\* error and returns the input table unchanged, whatever start_date and end_date.
C4_FilterWithoutDateColumn ==
    (FilterCalled /\ ~HasDateColumn(call.before)) =>
        /\ ~call.raised
        /\ call.ret = call.before
        /\ df = <<call.before>>

C4_Witness ==
    /\ FilterCalled /\ ~HasDateColumn(call.before)
    /\ call.start > call.end
    /\ Len(call.before.rows) >= 2
    /\ call.ret = call.before

-----------------------------------------------------------------------------
(* Properties of aggregate_by_location *)

AggregateCalled == call.op = "aggregate"

\* The distinct locations of the input table; a missing Location is none.
DistinctLocations(t) == {t.rows[i].Location : i \in 1..Len(t.rows)} \ {NaN}

RecordsAt(t, loc) == {i \in 1..Len(t.rows) : t.rows[i].Location = loc}

RECURSIVE FineTotal(_, _)
FineTotal(t, I) ==
    IF I = {} THEN 0
    ELSE LET i == CHOOSE x \in I : TRUE
         IN t.rows[i].Fine_Amount + FineTotal(t, I \ {i})

\* The result has one row per distinct location of the input, and no other row.
OneRowPerLocation(t, ret) ==
    /\ Len(ret.rows) = Cardinality(DistinctLocations(t))
    /\ \A loc \in DistinctLocations(t) :
          Cardinality({j \in 1..Len(ret.rows) : ret.rows[j].Location = loc}) = 1

PerLocationTotals(t, ret) ==
    /\ ret.columns = <<"Location", "Fine_Amount_Total">>
    /\ OneRowPerLocation(t, ret)
    /\ \A j \in 1..Len(ret.rows) :
          ret.rows[j].Fine_Amount_Total =
              Number(FineTotal(t, RecordsAt(t, ret.rows[j].Location)))

PerLocationCounts(t, ret) ==
    /\ ret.columns = <<"Location", "Count">>
    /\ OneRowPerLocation(t, ret)
    /\ \A j \in 1..Len(ret.rows) :
          ret.rows[j].Count = Number(Cardinality(RecordsAt(t, ret.rows[j].Location)))

\* C5: aggregate_by_location returns one row per distinct location of the input
\* table; with mode 'sum' the row's value is the sum of the metric column over the
\* records of that location, with mode 'count' the number of those records.
C5_AggregateSumCount ==
    /\ (AggregateCalled /\ call.mode = "sum"
            /\ HasColumns(call.before, {"Location", "Fine_Amount"})) =>
          (~call.raised /\ PerLocationTotals(call.before, call.ret))
    /\ (AggregateCalled /\ call.mode = "count" /\ HasColumns(call.before, {"Location"})) =>
          (~call.raised /\ PerLocationCounts(call.before, call.ret))

ExampleRows ==
    <<[Location |-> "Delhi", Fine_Amount |-> 10, Date |-> StrCell("2023-01-01")],
      [Location |-> "Delhi", Fine_Amount |-> 5, Date |-> StrCell("2023-01-01")],
      [Location |-> "Goa", Fine_Amount |-> 7, Date |-> StrCell("2023-01-01")]>>

\* The example of the specification: (A,10),(A,5),(B,7) gives A:15, B:7.
C5_Witness ==
    /\ AggregateCalled /\ call.mode = "sum"
    /\ call.before.rows = ExampleRows
    /\ call.ret.rows = <<[Location |-> "Delhi", Fine_Amount_Total |-> Number(15)],
                         [Location |-> "Goa", Fine_Amount_Total |-> Number(7)]>>

KnownAggregations == {"sum", "mean", "count", "max"}

\* C6: aggregate_by_location with an aggregation other than 'sum', 'mean',
\* 'count' or 'max' raises no error and returns what mode 'sum' returns on the
\* same table: the same locations, totals and output column name.
C6_UnknownModeIsSum ==
    (AggregateCalled /\ call.mode \notin KnownAggregations) =>
        LET sum == aggregate_by_location(call.before, "Location", "Fine_Amount", "sum")
        IN /\ call.raised = sum.raised
           /\ call.ret = sum.ret
           /\ HasColumns(call.before, {"Location", "Fine_Amount"}) =>
                 (~call.raised /\ PerLocationTotals(call.before, call.ret))

C6_Witness ==
    /\ AggregateCalled /\ call.mode = "median"
    /\ call.before.rows = ExampleRows
    /\ ~call.raised
    /\ call.ret.columns = <<"Location", "Fine_Amount_Total">>
    /\ call.ret.rows[1].Fine_Amount_Total = Number(15)

-----------------------------------------------------------------------------
(* Properties of add_state_labels *)

LabelsCalled == labelCall.op = "labels"

\* The positions of the rows whose Location is a key of the coordinate map.
RecognizedRows ==
    {i \in 1..Len(labelCall.state_data.rows) :
        labelCall.state_data.rows[i].Location \in DOMAIN get_state_coordinates}

NthRecognized(j) ==
    CHOOSE i \in RecognizedRows : Cardinality({m \in RecognizedRows : m <= i}) = j

\* C7: add_state_labels raises no error and adds no annotation for a row whose
\* Location is no key of the state-coordinate map; it adds exactly one annotation
\* per row whose Location is a recognized state (at that state's coordinates),
\* and the annotations already on the figure are kept.
C7_LabelsSkipUnknown ==
    LabelsCalled =>
        /\ ~labelCall.raised
        /\ Len(fig) = Len(labelCall.before) + Cardinality(RecognizedRows)
        /\ SubSeq(fig, 1, Len(labelCall.before)) = labelCall.before
        /\ \A j \in 1..Cardinality(RecognizedRows) :
              LET row == labelCall.state_data.rows[NthRecognized(j)]
                  a == fig[Len(labelCall.before) + j]
              IN /\ a.x = get_state_coordinates[row.Location][2] + labelCall.offset_x
                 /\ a.y = get_state_coordinates[row.Location][1] + labelCall.offset_y
                 /\ a.label = UpperPrefix[row.Location]
                 /\ a.value * row.Fine_Amount_Avg.den <= row.Fine_Amount_Avg.num
                 /\ row.Fine_Amount_Avg.num < (a.value + 1) * row.Fine_Amount_Avg.den

C7_Witness ==
    /\ LabelsCalled
    /\ labelCall.before # <<>>
    /\ \E i \in 1..Len(labelCall.state_data.rows) :
          labelCall.state_data.rows[i].Location = "Goa"
    /\ \E i \in 1..Len(labelCall.state_data.rows) :
          labelCall.state_data.rows[i].Location = NaN
    /\ Cardinality(RecognizedRows) = 1
    /\ Len(fig) = Len(labelCall.before) + 1
    /\ fig[Len(fig)].label = "DE"

-----------------------------------------------------------------------------
(* Properties of the router *)

\* The render module that belongs to each navigation label.
ViewOfLabel ==
    ("Home" :> "views._1_Home") @@ ("Dashboard" :> "views._2_Dashboard") @@
    ("Time Trend Analysis" :> "views._3_Time_Trend_Analysis") @@
    ("Environment Analysis" :> "views._4_Environment_Analysis") @@
    ("Vehicle Analysis" :> "views._5_Vehicle_Analysis") @@
    ("Driver Behaviour Analysis" :> "views._6_Driver_Behaviour_Analysis") @@
    ("Payment Analysis" :> "views._7_Payment_Analysis") @@
    ("Map Visualisation" :> "views._8_Map_Visualisation") @@
    ("Report" :> "views._9_Report") @@ ("About" :> "views._10_About")

OtherLabels == {"", "home", "Settings", "Map Visualization"}

\* C1: on every rerun that reaches the router, for each of the ten navigation
\* labels, exactly one render function is invoked: the one of the selected label,
\* with the loaded table as its argument; a label outside the ten invokes none.
\* (A rerun that load_data aborts never reaches the router and renders nothing.)
C1_RouterInvokesOne ==
    /\ page \in DOMAIN ViewOfLabel
    /\ (run.ran /\ run.loadOk) =>
          /\ Len(run.invoked) = 1
          /\ run.invoked[1].view = ViewOfLabel[page]
          /\ run.invoked[1].arg = loaded[1]
    /\ (run.ran /\ ~run.loadOk) => run.invoked = <<>>
    /\ \A label \in DOMAIN ViewOfLabel, t \in SessionTables :
          /\ Len(Route(label, t)) = 1
          /\ Route(label, t)[1] = [view |-> ViewOfLabel[label], arg |-> t]
    /\ \A label \in OtherLabels, t \in SessionTables : Route(label, t) = <<>>

\* A page switch: a later rerun, served from the cache, routes to the map page.
C1_Witness ==
    /\ run.ran /\ run.loadOk /\ run.hit
    /\ page = "Map Visualisation"
    /\ run.invoked = <<[view |-> "views._8_Map_Visualisation", arg |-> loaded[1]]>>

-----------------------------------------------------------------------------
(* Properties of the loaded table *)

\* C2: the violation table is immutable for the lifetime of a session: after any
\* sequence of page renders and map-utility calls the content of the loaded
\* table is what load_data returned; no operation writes back to it.
C2_TableImmutable == df = loaded

\* C8 as stated: the CSV file is read at most once per process.
C8_ReadAtMostOnce == csvReads <= 1

\* C8 as amended: once a load_data call has returned a table, no later call
\* reads the file, and every later call returns that table's content (also when
\* the file on disk has changed since).
C8_ReadOnceLoaded ==
    [][dataCache # <<>> =>
         /\ csvReads' = csvReads
         /\ dataCache' = dataCache
         /\ loaded' # <<>> => loaded' = dataCache]_vars

\* A rerun was served from the cache although the file on disk differs from it.
C8_Witness ==
    /\ run.ran /\ run.hit
    /\ loaded = dataCache
    /\ csvFile.table # dataCache[1]
    /\ csvReads = 1

-----------------------------------------------------------------------------
(* Properties of load_geojsons *)

GeojsonsCalled == geoCall.op = "load_geojsons"

AgeAtCall == geoCall.at - geoCall.cached[1].at

-----------------------------------------------------------------------------
(* Properties of the stylesheet injection *)

\* C12: a failure to load styles/main.css is swallowed: whether opening or
\* reading the stylesheet succeeds or fails, a rerun that has loaded the table
\* goes on, shows the sidebar selector and invokes the renderer of the selected
\* label; apart from the injected style, the rerun is the one a readable
\* stylesheet gives.
C12_StylesheetFailureSwallowed ==
    /\ (run.ran /\ run.loadOk) =>
          /\ run.sidebar
          /\ run.invoked = <<[view |-> ViewOfLabel[page], arg |-> loaded[1]]>>
    /\ \A selected \in DOMAIN ViewOfLabel, css \in StylesheetStates :
          LET out == RunScript(selected, css)
              ref == RunScript(selected, "ok")
          IN /\ out.run.styled = (out.run.loadOk /\ css = "ok")
             /\ out.run.sidebar = ref.run.sidebar
             /\ out.run.invoked = ref.run.invoked
             /\ out.loaded = ref.loaded
             /\ out.cache = ref.cache

\* A rerun whose stylesheet could not be loaded has shown the sidebar and
\* rendered the selected page.
C12_Witness ==
    /\ run.ran /\ run.loadOk /\ ~run.styled
    /\ run.sidebar
    /\ page = "Time Trend Analysis"
    /\ Len(run.invoked) = 1
    /\ run.invoked[1].view = "views._3_Time_Trend_Analysis"

====
